---- MODULE Spec2Model ----
(***************************************************************************)
(* Model of scrape_agent_properties.py: the Link Collector                 *)
(* (scrape_property_links), the Detail Extractor                           *)
(* (scrape_details_from_links) and the batch driver (__main__).            *)
(*                                                                         *)
(* Strings are sequences of tokens; a token is a TLA+ string holding one   *)
(* or more characters.  The empty Python string is <<>>.  A value that may *)
(* be None (a missing element, a missing CSV cell) is an option: <<>> is   *)
(* None and <<s>> is the string s.                                         *)
(***************************************************************************)
EXTENDS Integers, Sequences, FiniteSets, TLC

VARIABLES
    pc,                   \* position of the running coroutine
    site,                 \* what the website can serve during this run
    fs,                   \* file system: path -> [header, rows]
    agentIdx,             \* index of the driver loop in agent_ids
    started,              \* stages begun so far: <<agent index, stage>>
    agent_name,           \* local of scrape_property_links
    previous_height,      \* local of scrape_property_links
    sampled,              \* heights sampled so far by the scroll loop
    scrolls,              \* number of window.scrollTo calls performed
    sanitized_agent_name, \* first component returned by the collector
    original_agent_name,  \* second component returned by the collector
    input_csv_path,       \* parameter of scrape_details_from_links
    output_csv_path,      \* parameter of scrape_details_from_links
    property_links,       \* local of scrape_details_from_links
    skipped,              \* number of "Skipping row" messages printed
    browsers,             \* number of chromium launches by the extractor
    listingIdx,           \* index of the per-listing loop in property_links
    amenBound,            \* whether amenities_features_content is bound
    page,                 \* the document loaded in the reused page object
    slide,                \* slide index shown by the carousel pagination
    total_images,         \* local of the per-listing block
    loopI,                \* loop variable i of the click loop
    clicks,               \* next_button.click() calls for this listing
    imageLinks,           \* local of the per-listing block
    outcomes,             \* what is remembered of each processed listing
    opened                \* every open(path, 'w') so far, and what it is for

vars == <<pc, site, fs, agentIdx, started, agent_name, previous_height,
          sampled, scrolls, sanitized_agent_name, original_agent_name,
          input_csv_path, output_csv_path, property_links, skipped, browsers,
          listingIdx, amenBound, page, slide, total_images, loopI, clicks,
          imageLinks, outcomes, opened>>

collectorVars == <<agent_name, previous_height, sampled, scrolls>>
extractorVars == <<input_csv_path, output_csv_path, property_links, skipped,
                   browsers, listingIdx, amenBound, page, slide,
                   total_images, loopI, clicks, imageLinks, outcomes>>

(***************************************************************************)
(* Bounds of the model.                                                    *)
(***************************************************************************)
MaxNameLen == 3      \* longest display name drawn from NameAlphabet
MaxScrolls == 5      \* the page stops growing after this many scrolls
MaxRows == 2         \* rows of an input file handed to the extractor
MaxAgents == 2       \* entries of agents.json
BigCarousel == 61    \* slides of the largest carousel served

(***************************************************************************)
(* Python string helpers.                                                  *)
(***************************************************************************)
None == <<>>
Some(s) == <<s>>

Letters == {"a","b","c","d","e","f","g","h","i","j","k","l","m","n","o","p",
            "q","r","s","t","u","v","w","x","y","z","J","O","B"}
Digits == {"0","1","2","3","4","5","6","7","8","9"}
Whitespace == {" ", "\t", "\n"}

isalnum(c) == c \in Letters \cup Digits

StartsWith(s, prefix) ==
    /\ Len(s) >= Len(prefix)
    /\ SubSeq(s, 1, Len(prefix)) = prefix

RECURSIVE rstrip(_)
rstrip(s) ==
    IF s # <<>> /\ s[Len(s)] \in Whitespace
    THEN rstrip(SubSeq(s, 1, Len(s) - 1))
    ELSE s

RECURSIVE lstrip(_)
lstrip(s) ==
    IF s # <<>> /\ s[1] \in Whitespace THEN lstrip(Tail(s)) ELSE s

strip(s) == lstrip(rstrip(s))

replace(s, old, new) == [i \in 1..Len(s) |-> IF s[i] = old THEN new ELSE s[i]]

UnknownAgent == <<"u","n","k","n","o","w","n","_","a","g","e","n","t">>
PropertyToken == <<"p","r","o","p","e","r","t","y">>

\* Lines 92-95: the identifier used in the names of the agent's files.
SanitizeNoFallback(name) ==
    LET kept == SelectSeq(name, LAMBDA c : isalnum(c) \/ c \in {" ", "_"})
    IN  replace(rstrip(kept), " ", "_")

Sanitize(name) ==
    LET kept == SelectSeq(name, LAMBDA c : isalnum(c) \/ c \in {" ", "_"})
        under == replace(rstrip(kept), " ", "_")
    IN  IF under = <<>> THEN PropertyToken ELSE under

LinksPath(sanitized) == sanitized \o <<"_links.csv">>
PropertiesPath(sanitized) == sanitized \o <<"_properties.csv">>

(***************************************************************************)
(* CSV files.  A file is [header, rows]; a row read back by csv.DictReader *)
(* maps every column of the header to an option: None for a cell the row   *)
(* is too short to hold (DictReader's restval).                            *)
(***************************************************************************)
Exists(path) == path \in DOMAIN fs

\* open(path, 'a') in place of open(path, 'w').
WriteFileAppends(files, path, file) ==
    [p \in DOMAIN files \cup {path} |->
        IF p # path THEN files[p]
        ELSE IF path \in DOMAIN files
        THEN [files[path] EXCEPT !.rows = @ \o file.rows]
        ELSE file]

\* open(path, 'w') and what is written before the file is closed.
WriteFile(files, path, file) ==
    [p \in DOMAIN files \cup {path} |-> IF p = path THEN file ELSE files[p]]

LinksHeader == <<"name", "location", "link">>

\* Lines 100-106: csv.DictWriter over the stubs returned by page.evaluate.
LinksFile(property_data) ==
    [header |-> LinksHeader,
     rows |-> [i \in 1..Len(property_data) |->
                  [c \in {"name", "location", "link"} |->
                      Some(property_data[i][c])]]]

(***************************************************************************)
(* Link Collector: scrape_property_links.                                  *)
(***************************************************************************)

\* Lines 15-22: launch, new page, goto(url, networkidle).  A navigation
\* timeout is not caught anywhere and leaves through asyncio.run.
CollectorOpen ==
    /\ pc = "collector"
    /\ \E ok \in BOOLEAN : pc' = IF ok THEN "c_name" ELSE "raised"
    /\ UNCHANGED <<opened, site, fs, agentIdx, started, sanitized_agent_name,
                   original_agent_name>>
    /\ UNCHANGED collectorVars
    /\ UNCHANGED extractorVars

\* Lines 25-38: the display name read from [data-item-name].
AgentNameOf(el) ==
    IF el.element /\ el.attr # None /\ el.attr[1] # <<>>
    THEN strip(el.attr[1])
    ELSE UnknownAgent

\* Lines 25-41.
ReadAgentName ==
    /\ pc = "c_name"
    /\ \E el \in site.names : agent_name' = AgentNameOf(el)
    /\ previous_height' = -1
    /\ sampled' = <<>>
    /\ scrolls' = 0
    /\ pc' = "c_scroll"
    /\ UNCHANGED <<opened, site, fs, agentIdx, started, sanitized_agent_name,
                   original_agent_name>>
    /\ UNCHANGED extractorVars

\* Line 46: the loop's exit test.
ScrollStopsWhenNotGrowing(current_height, previous) ==
    current_height <= previous

ScrollStops(current_height, previous) == current_height = previous

\* Lines 42-48: one iteration of the auto-scroll loop.  The document height
\* is whatever the page reports; after MaxScrolls scrolls it stops growing.
ScrollStep ==
    /\ pc = "c_scroll"
    /\ \E current_height \in
            IF scrolls + 1 < MaxScrolls THEN site.heights
                                        ELSE {previous_height} :
          /\ sampled' = Append(sampled, current_height)
          /\ IF ScrollStops(current_height, previous_height)
             THEN /\ pc' = "c_cards"
                  /\ UNCHANGED previous_height
             ELSE /\ pc' = "c_scroll"
                  /\ previous_height' = current_height
    /\ scrolls' = scrolls + 1
    /\ UNCHANGED <<opened, site, fs, agentIdx, started, agent_name,
                   sanitized_agent_name, original_agent_name>>
    /\ UNCHANGED extractorVars

\* Lines 51-112: the stubs returned by page.evaluate are written to
\* <sanitized>_links.csv, opened in 'w' mode; the names are returned.
SaveLinks ==
    /\ pc = "c_cards"
    /\ \E property_data \in site.stubs :
          /\ fs' = WriteFile(fs, LinksPath(Sanitize(agent_name)),
                             LinksFile(property_data))
          /\ opened' = Append(opened,
                              [agent |-> agentIdx,
                               path |-> LinksPath(Sanitize(agent_name)),
                               stubs |-> property_data])
    /\ sanitized_agent_name' = Sanitize(agent_name)
    /\ original_agent_name' = agent_name
    /\ agent_name' = <<>>
    /\ previous_height' = -1
    /\ sampled' = <<>>
    /\ scrolls' = 0
    /\ pc' = "c_returned"
    /\ UNCHANGED <<site, agentIdx, started>>
    /\ UNCHANGED extractorVars

(***************************************************************************)
(* Detail Extractor: scrape_details_from_links.  Reading the input file.   *)
(***************************************************************************)
Http == <<"http">>

\* Lines 128-131 for one row: the key of the link column, "skip" for the
\* else branch of line 138, or "raise" when .startswith is called on None.
LinkKey(row) ==
    LET second ==
          IF "Property Link" \in DOMAIN row
          THEN IF row["Property Link"] = None THEN "raise"
               ELSE IF StartsWith(row["Property Link"][1], Http)
                    THEN "Property Link" ELSE "skip"
          ELSE "skip"
    IN  IF "link" \in DOMAIN row
        THEN IF row["link"] = None THEN "raise"
             ELSE IF StartsWith(row["link"][1], Http) THEN "link" ELSE second
        ELSE second

NA == <<"N/A">>

\* Line 135: row.get('name', row.get('Property Name', 'N/A')), an option.
NameOf(row) ==
    IF "name" \in DOMAIN row THEN row["name"]
    ELSE IF "Property Name" \in DOMAIN row THEN row["Property Name"]
    ELSE Some(NA)

\* Lines 134-137.
StubOf(row) == [name |-> NameOf(row), link |-> row[LinkKey(row)][1]]

\* Lines 126-139: the loop over the reader, from row i on.  The result is
\* the links appended, the rows skipped and whether a row raised.
RECURSIVE ReadRows(_, _, _)
ReadRows(rows, i, acc) ==
    IF i > Len(rows) THEN acc
    ELSE LET key == LinkKey(rows[i])
         IN  IF key = "raise" THEN [acc EXCEPT !.raised = TRUE]
             ELSE IF key = "skip"
             THEN ReadRows(rows, i + 1, [acc EXCEPT !.skipped = @ + 1])
             ELSE ReadRows(rows, i + 1,
                           [acc EXCEPT !.links = Append(@, StubOf(rows[i]))])

ReadInput(file) ==
    ReadRows(file.rows, 1, [links |-> <<>>, skipped |-> 0, raised |-> FALSE])

(***************************************************************************)
(* The output file.                                                        *)
(***************************************************************************)
max_image_columns == 60

ScalarColumns ==
    << <<"Property ID">>, <<"MLS#">>, <<"Status">>, <<"Agent Name">>,
       <<"Marketed By">>, <<"Category">>, <<"Property Type">>, <<"Style">>,
       <<"Property Name">>, <<"Property Link">>, <<"Price">>,
       <<"Year Built">>, <<"Bedrooms">>, <<"Full Bathrooms">>,
       <<"Partial Baths">>, <<"Total Sqft">>, <<"Lot Size">>,
       <<"Lot Size Unit">>, <<"Parking">>, <<"Cooling">>,
       <<"Interior Features">>, <<"Additional Features">>, <<"Latitude">>,
       <<"Longitude">>, <<"Property Description Title">>,
       <<"Property Description">> >>

ImageColumn(i) == <<"Image Link ", i>>

\* Line 150.
fieldnames ==
    ScalarColumns \o [i \in 1..max_image_columns |-> ImageColumn(i)]

FieldnameSet == {fieldnames[i] : i \in 1..Len(fieldnames)}

\* csv.DictWriter.writerow: every column of fieldnames is written, a key the
\* dict lacks as restval '' and a None value as ''.
WriteRow(row_data) ==
    [c \in FieldnameSet |-> IF c \in DOMAIN row_data THEN row_data[c] ELSE <<>>]

AppendRow(files, path, row_data) ==
    [files EXCEPT ![path].rows = Append(@, WriteRow(row_data))]

CsvCell(opt) == IF opt = None THEN <<>> ELSE opt[1]

(***************************************************************************)
(* Image carousel: pagination text and image URLs.                         *)
(***************************************************************************)
DigitTokens == <<"0","1","2","3","4","5","6","7","8","9">>

\* The decimal digits of n, as f'{n}' writes them.
RECURSIVE Decimal(_)
Decimal(n) ==
    IF n < 10 THEN <<DigitTokens[n + 1]>>
    ELSE Decimal(n \div 10) \o <<DigitTokens[(n % 10) + 1]>>

DigitValue(d) == CHOOSE v \in 0..9 : DigitTokens[v + 1] = d

\* int(): the number a run of decimal digits denotes.
RECURSIVE ToInt(_)
ToInt(ds) ==
    IF ds = <<>> THEN 0
    ELSE 10 * ToInt(SubSeq(ds, 1, Len(ds) - 1)) + DigitValue(ds[Len(ds)])

\* The end of the longest run of digits of text that starts at i.
RECURSIVE RunEnd(_, _)
RunEnd(text, i) ==
    IF i < Len(text) /\ text[i + 1] \in Digits THEN RunEnd(text, i + 1) ELSE i

\* Whether (\d+)/(\d+) matches text at position i.
MatchesAt(text, i) ==
    /\ text[i] \in Digits
    /\ RunEnd(text, i) + 2 <= Len(text)
    /\ text[RunEnd(text, i) + 1] = "/"
    /\ text[RunEnd(text, i) + 2] \in Digits

\* Line 173: re.search(r'(\d+)/(\d+)', pagination_text), None or the groups.
PaginationMatch(text) ==
    LET starts == {i \in 1..Len(text) : MatchesAt(text, i)}
    IN  IF starts = {} THEN None
        ELSE LET i == CHOOSE m \in starts : \A n \in starts : m <= n
                 j == RunEnd(text, i)
             IN  Some([current |-> ToInt(SubSeq(text, i, j)),
                       total |-> ToInt(SubSeq(text, j + 2,
                                             RunEnd(text, j + 2)))])

\* String.prototype.includes.
Includes(text, needle) ==
    \E k \in 0..(Len(text) - Len(needle)) :
        SubSeq(text, k + 1, k + Len(needle)) = needle

\* The wait of line 197 had it looked for the total alone.
PaginationShowsTotalOnly(text, index, total) ==
    Includes(text, <<"/">> \o Decimal(total))

\* Line 197: the predicate handed to page.wait_for_function.
PaginationShows(text, index, total) ==
    Includes(text, Decimal(index) \o <<"/">> \o Decimal(total))

\* The text of the pagination span of a page whose carousel shows slide k.
PaginationText(pagination, k) ==
    pagination.prefix \o Decimal(k) \o pagination.separator
        \o Decimal(pagination.total)

\* The position of the first token tok of s, 0 when there is none.
FirstIndex(s, tok) ==
    IF \E i \in 1..Len(s) : s[i] = tok
    THEN CHOOSE i \in 1..Len(s) : s[i] = tok /\ \A j \in 1..(i - 1) : s[j] # tok
    ELSE 0

\* src.split(sep)[0].
BeforeFirst(s, sep) ==
    IF FirstIndex(s, sep) = 0 THEN s ELSE SubSeq(s, 1, FirstIndex(s, sep) - 1)

AfterFirst(s, sep) ==
    IF FirstIndex(s, sep) = 0 THEN <<>>
    ELSE SubSeq(s, FirstIndex(s, sep) + 1, Len(s))

\* urlparse(src).query.
QueryOf(src) == BeforeFirst(AfterFirst(src, "?"), "#")

\* parse_qs(query).get('url', [None])[0]: the value of the first url=
\* parameter that is not blank (parse_qs drops blank values).
RECURSIVE UrlParam(_)
UrlParam(query) ==
    IF query = <<>> THEN None
    ELSE LET segment == BeforeFirst(query, "&")
         IN  IF Len(segment) >= 2 /\ segment[1] = "url="
             THEN Some(Tail(segment))
             ELSE UrlParam(AfterFirst(query, "&"))

\* Lines 183-189, 205-211 and 226-232.
Normalize(src) ==
    IF UrlParam(QueryOf(src)) # None
    THEN UrlParam(QueryOf(src))[1]
    ELSE BeforeFirst(src, "&")

\* Lines 179-192 and 201-214: img is None (no element), Some(None) (an
\* element without a src attribute) or Some(Some(src)).
Capture(links, img) ==
    IF img # None /\ img[1] # None /\ StartsWith(img[1][1], Http)
    THEN Append(links, Normalize(img[1][1]))
    ELSE links

SlideImage(pg, k) == IF k \in 1..Len(pg.slides) THEN pg.slides[k] ELSE None

\* Lines 221-236 as written: get_attribute is a coroutine function and is
\* not awaited, so the comprehension's condition calls .startswith on a
\* coroutine object as soon as there is one image node.
Fallback(pg) ==
    IF Len(pg.static) > 0
    THEN [raised |-> TRUE, links |-> <<>>]
    ELSE [raised |-> FALSE, links |-> <<>>]

(***************************************************************************)
(* Field extraction from the parsed HTML.                                  *)
(***************************************************************************)
Locals ==
    {"property_id", "mls_number", "price", "bedrooms", "bathrooms",
     "partial_baths", "total_sqft", "lot_size_unit", "lot_size",
     "property_type", "status", "marketed_by", "style", "cooling",
     "interior_features", "additional_features", "latitude", "longitude",
     "property_description", "property_description_title", "year_built",
     "parking"}

\* Lines 242-265.
InitialLocals == [v \in Locals |-> <<>>]

\* Lines 282-323: <<column title, item title, local assigned>>.
FieldTable ==
    { <<"Listing Details", "Property ID", "property_id">>,
      <<"Listing Details", "MLS#", "mls_number">>,
      <<"Listing Details", "Price", "price">>,
      <<"Listing Details", "Property type", "property_type">>,
      <<"Listing Details", "Marketed By", "marketed_by">>,
      <<"Listing Details", "Status", "status">>,
      <<"Listing Details", "Year Built", "year_built">>,
      <<"Utilities & Building", "Style", "style">>,
      <<"Utilities & Building", "total sqft", "total_sqft">>,
      <<"Utilities & Building", "Lot Size Unit", "lot_size_unit">>,
      <<"Utilities & Building", "Lot Size", "lot_size">>,
      <<"Utilities & Building", "Parking", "parking">>,
      <<"Utilities & Building", "cooling", "cooling">>,
      <<"Utilities & Building", "Year Built", "year_built">>,
      <<"Interior", "Features", "interior_features">>,
      <<"Interior", "Full Bathrooms", "bathrooms">>,
      <<"Interior", "partial baths", "partial_baths">>,
      <<"Interior", "Bedrooms", "bedrooms">>,
      <<"Additional Features", "Features", "additional_features">> }

\* Lines 278-323 for one item: title and content are options (select_one),
\* their text is stripped (get_text(strip=True)).
RouteItem(locals, column_title, item) ==
    IF item.title = None \/ item.content = None THEN locals
    ELSE LET hits == {m \in FieldTable :
                         /\ <<m[1]>> = column_title
                         /\ <<m[2]>> = strip(item.title[1])}
         IN  IF hits = {} THEN locals
             ELSE [locals EXCEPT ![(CHOOSE m \in hits : TRUE)[3]] =
                                     strip(item.content[1])]

\* Lines 274-323: the items of one column, in document order.
RECURSIVE RouteItems(_, _, _, _)
RouteItems(locals, column_title, items, i) ==
    IF i > Len(items) THEN locals
    ELSE RouteItems(RouteItem(locals, column_title, items[i]),
                    column_title, items, i + 1)

\* Lines 267-323: the columns, in document order; a column without a title
\* element is passed over.
RECURSIVE RouteColumns(_, _, _)
RouteColumns(locals, columns, i) ==
    IF i > Len(columns) THEN locals
    ELSE RouteColumns(
            IF columns[i].title = None THEN locals
            ELSE RouteItems(locals, strip(columns[i].title[1]),
                            columns[i].items, 1),
            columns, i + 1)

IsDigits(s) == s # <<>> /\ \A i \in 1..Len(s) : s[i] \in Digits

\* \d+\.?\d* over the whole of s.
IsUnsignedNumber(s) ==
    \/ IsDigits(s)
    \/ /\ FirstIndex(s, ".") > 1
       /\ IsDigits(BeforeFirst(s, "."))
       /\ LET rest == AfterFirst(s, ".") IN rest = <<>> \/ IsDigits(rest)

\* -?\d+\.?\d* over the whole of s.
IsSignedNumber(s) ==
    \/ IsUnsignedNumber(s)
    \/ s # <<>> /\ s[1] = "-" /\ IsUnsignedNumber(Tail(s))

\* Lines 341-346: html.lat and html.lon are the quoted "_text" values of the
\* inline structured data, None when the key is not in the document.
WithCoordinates(locals, html) ==
    IF /\ html.lat # None /\ IsUnsignedNumber(html.lat[1])
       /\ html.lon # None /\ IsSignedNumber(html.lon[1])
    THEN [locals EXCEPT !["latitude"] = html.lat[1],
                        !["longitude"] = html.lon[1]]
    ELSE locals

\* Lines 331-339.
WithDescription(locals, html) ==
    [locals EXCEPT
        !["property_description_title"] =
            IF html.descTitle # None THEN strip(html.descTitle[1]) ELSE @,
        !["property_description"] =
            IF html.desc # None THEN strip(html.desc[1]) ELSE NA]

\* Lines 239-346 without the amenities step: the locals after parsing.
ParseFields(html) ==
    WithCoordinates(
        WithDescription(RouteColumns(InitialLocals, html.columns, 1), html),
        html)

\* The same step had the local been reset at the top of every listing.
AmenitiesRaisesEachListing(html, bound) == ~html.amen

\* Lines 325-329: the amenities step raises UnboundLocalError when the page
\* has no 'Amenities & Features' h3 and the local was never bound.
AmenitiesRaises(html, bound) == ~html.amen /\ ~bound

RealEstate == <<"Real Estate">>
ErrorScraping == <<"Error Scraping">>

\* Lines 377-404: <<column, local>>.
RowTable ==
    { <<"Property ID", "property_id">>, <<"MLS#", "mls_number">>,
      <<"Status", "status">>, <<"Marketed By", "marketed_by">>,
      <<"Property Type", "property_type">>, <<"Style", "style">>,
      <<"Price", "price">>, <<"Bedrooms", "bedrooms">>,
      <<"Full Bathrooms", "bathrooms">>,
      <<"Partial Baths", "partial_baths">>, <<"Total Sqft", "total_sqft">>,
      <<"Lot Size", "lot_size">>, <<"Lot Size Unit", "lot_size_unit">>,
      <<"Parking", "parking">>, <<"Cooling", "cooling">>,
      <<"Interior Features", "interior_features">>,
      <<"Additional Features", "additional_features">>,
      <<"Latitude", "latitude">>, <<"Longitude", "longitude">>,
      <<"Property Description Title", "property_description_title">>,
      <<"Property Description", "property_description">>,
      <<"Year Built", "year_built">> }

ScalarColumnSet == {ScalarColumns[i] : i \in 1..Len(ScalarColumns)}
ImageColumnSet == {ImageColumn(i) : i \in 1..max_image_columns}

\* Lines 406-408: the value of 'Image Link i'.
ImageCellFromZero(links, i) == IF i < Len(links) THEN links[i + 1] ELSE <<>>

ImageCell(links, i) == IF i - 1 < Len(links) THEN links[i] ELSE <<>>

\* Lines 377-408: row_data of a listing that parsed.
SuccessRow(agent, stub, locals, links) ==
    [c \in ScalarColumnSet \cup ImageColumnSet |->
        IF c \in ImageColumnSet THEN ImageCell(links, c[2])
        ELSE IF c = <<"Agent Name">> THEN agent
        ELSE IF c = <<"Category">> THEN RealEstate
        ELSE IF c = <<"Property Name">> THEN CsvCell(stub.name)
        ELSE IF c = <<"Property Link">> THEN stub.link
        ELSE locals[(CHOOSE m \in RowTable : <<m[1]>> = c)[2]]]

ErrorColumns ==
    { <<"Property ID">>, <<"Price">>, <<"Latitude">>, <<"Longitude">>,
      <<"Property Description Title">>, <<"Property Description">>,
      <<"Year Built">> }

\* Lines 415-441: error_row_data; it has no 'Parking' and no image key.
ErrorRow(agent, stub) ==
    [c \in ScalarColumnSet \ {<<"Parking">>} |->
        IF c = <<"Agent Name">> THEN agent
        ELSE IF c = <<"Category">> THEN RealEstate
        ELSE IF c = <<"Property Name">> THEN CsvCell(stub.name)
        ELSE IF c = <<"Property Link">> THEN stub.link
        ELSE IF c \in ErrorColumns THEN ErrorScraping
        ELSE <<>>]

(***************************************************************************)
(* Detail Extractor: the actions.                                          *)
(***************************************************************************)
NoPage ==
    [carousel |-> FALSE, pagination |-> None, next |-> FALSE,
     slides |-> <<>>, static |-> <<>>, columns |-> <<>>, amen |-> FALSE,
     descTitle |-> None, desc |-> None, lat |-> None, lon |-> None]

\* The locals of the per-listing block, as they are before line 157.
ResetListing ==
    /\ page' = NoPage
    /\ slide' = 0
    /\ total_images' = 0
    /\ loopI' = 0
    /\ clicks' = 0
    /\ imageLinks' = <<>>

\* Line 156: the loop goes on to the next link, or lines 444-445 run and the
\* coroutine returns.
NextListing ==
    /\ listingIdx' = listingIdx + 1
    /\ pc' = IF listingIdx < Len(property_links) THEN "e_listing"
                                                  ELSE "e_returned"
    /\ ResetListing

\* What is remembered of a listing once its iteration is over: how it ended,
\* at which step, the page that was served, the clicks made, the URLs held.
Outcome(result, pg, nclicks, links) ==
    [result |-> result, at |-> pc, page |-> pg, clicks |-> nclicks,
     links |-> links]

\* Lines 413-442: the handler of the per-listing try block.
ExceptHandlerDropsRow(pg, nclicks) ==
    /\ UNCHANGED fs
    /\ outcomes' = Append(outcomes, Outcome("error", pg, nclicks, <<>>))
    /\ NextListing

ExceptHandlerAborts(pg, nclicks) ==
    /\ fs' = AppendRow(fs, output_csv_path,
                       ErrorRow(original_agent_name,
                                property_links[listingIdx]))
    /\ outcomes' = Append(outcomes, Outcome("error", pg, nclicks, <<>>))
    /\ listingIdx' = listingIdx + 1
    /\ pc' = "e_returned"
    /\ ResetListing

ExceptHandler(pg, nclicks) ==
    /\ fs' = AppendRow(fs, output_csv_path,
                       ErrorRow(original_agent_name,
                                property_links[listingIdx]))
    /\ outcomes' = Append(outcomes, Outcome("error", pg, nclicks, <<>>))
    /\ NextListing

\* Lines 118-152: the input file is read; the browser is launched and the
\* output file opened in 'w' mode only when a link was accepted.  A launch
\* that fails raises outside the per-listing try block.
ExtractorStart ==
    /\ pc = "extractor"
    /\ outcomes' = <<>>
    /\ amenBound' = FALSE
    /\ ResetListing
    /\ UNCHANGED <<site, agentIdx, started, sanitized_agent_name,
                   original_agent_name, input_csv_path, output_csv_path>>
    /\ UNCHANGED collectorVars
    /\ IF ~Exists(input_csv_path)
       THEN /\ pc' = "e_returned"
            /\ property_links' = <<>>
            /\ skipped' = 0
            /\ listingIdx' = 0
            /\ UNCHANGED <<fs, browsers, opened>>
       ELSE LET read == ReadInput(fs[input_csv_path])
            IN  /\ property_links' = read.links
                /\ skipped' = read.skipped
                /\ IF read.raised
                   THEN /\ pc' = "raised"
                        /\ listingIdx' = 0
                        /\ UNCHANGED <<fs, browsers, opened>>
                   ELSE IF read.links = <<>>
                   THEN /\ pc' = "e_returned"
                        /\ listingIdx' = 0
                        /\ UNCHANGED <<fs, browsers, opened>>
                   ELSE \E launched \in BOOLEAN :
                          IF launched
                          THEN /\ browsers' = browsers + 1
                               /\ fs' = WriteFile(fs, output_csv_path,
                                                  [header |-> fieldnames,
                                                   rows |-> <<>>])
                               /\ opened' =
                                    Append(opened,
                                           [agent |-> agentIdx,
                                            path |-> output_csv_path,
                                            stubs |-> read.links])
                               /\ listingIdx' = 1
                               /\ pc' = "e_listing"
                          ELSE /\ pc' = "raised"
                               /\ listingIdx' = 0
                               /\ UNCHANGED <<fs, browsers, opened>>

\* Lines 157-237: navigation, the 30 s wait for the carousel wrapper, the
\* pagination text, the first image (or the fallback without pagination).
OpenListing ==
    /\ pc = "e_listing"
    /\ UNCHANGED <<opened, site, agentIdx, started, sanitized_agent_name,
                   original_agent_name, input_csv_path, output_csv_path,
                   property_links, skipped, browsers, amenBound>>
    /\ UNCHANGED collectorVars
    /\ \E pg \in site.pages, reachable \in BOOLEAN :
          IF ~reachable
          THEN ExceptHandler(NoPage, 0)
          ELSE IF ~pg.carousel
          THEN ExceptHandler(pg, 0)
          ELSE IF pg.pagination = None
          THEN IF Fallback(pg).raised
               THEN ExceptHandler(pg, 0)
               ELSE /\ page' = pg
                    /\ imageLinks' = Fallback(pg).links
                    /\ pc' = "e_fields"
                    /\ slide' = 0
                    /\ total_images' = 0
                    /\ loopI' = 0
                    /\ clicks' = 0
                    /\ UNCHANGED <<fs, outcomes, listingIdx>>
          ELSE LET text == PaginationText(pg.pagination[1],
                                          pg.pagination[1].current)
                   match == PaginationMatch(text)
               IN  /\ page' = pg
                   /\ slide' = pg.pagination[1].current
                   /\ clicks' = 0
                   /\ UNCHANGED <<fs, outcomes, listingIdx>>
                   /\ IF match = None
                      THEN /\ total_images' = 0
                           /\ imageLinks' = <<>>
                           /\ loopI' = 0
                           /\ pc' = "e_fields"
                      ELSE /\ total_images' = match[1].total
                           /\ imageLinks' =
                                Capture(<<>>,
                                        SlideImage(pg,
                                                   pg.pagination[1].current))
                           /\ IF pg.next /\ match[1].total > 1
                              THEN loopI' = 1 /\ pc' = "e_click"
                              ELSE loopI' = 0 /\ pc' = "e_fields"

\* The slide a carousel of n slides shows after a click on next.
AfterClick(k, n) == IF k >= n THEN 1 ELSE k + 1

\* Lines 195-214: one iteration of the click loop: click, the 10 s wait for
\* the pagination text, the capture of the current slide's image.
ClickNext ==
    /\ pc = "e_click"
    /\ UNCHANGED <<opened, site, agentIdx, started, sanitized_agent_name,
                   original_agent_name, input_csv_path, output_csv_path,
                   property_links, skipped, browsers, amenBound>>
    /\ UNCHANGED collectorVars
    /\ \E effect \in {"advances", "stays", "raises"} :
          IF effect = "raises"
          THEN ExceptHandler(page, clicks)
          ELSE LET shown == IF effect = "advances"
                            THEN AfterClick(slide, page.pagination[1].total)
                            ELSE slide
                   text == PaginationText(page.pagination[1], shown)
               IN  IF ~PaginationShows(text, loopI + 1, total_images)
                   THEN ExceptHandler(page, clicks + 1)
                   ELSE /\ clicks' = clicks + 1
                        /\ slide' = shown
                        /\ imageLinks' =
                             Capture(imageLinks, SlideImage(page, shown))
                        /\ IF loopI + 1 < total_images
                           THEN loopI' = loopI + 1 /\ pc' = "e_click"
                           ELSE loopI' = 0 /\ pc' = "e_fields"
                        /\ UNCHANGED <<fs, outcomes, listingIdx, page,
                                       total_images>>

\* Lines 239-411: the fields are parsed and the row is written; the
\* amenities step binds amenities_features_content when the h3 is there.
ParseAndWrite ==
    /\ pc = "e_fields"
    /\ UNCHANGED <<opened, site, agentIdx, started, sanitized_agent_name,
                   original_agent_name, input_csv_path, output_csv_path,
                   property_links, skipped, browsers>>
    /\ UNCHANGED collectorVars
    /\ IF AmenitiesRaises(page, amenBound)
       THEN /\ ExceptHandler(page, clicks)
            /\ UNCHANGED amenBound
       ELSE /\ amenBound' = TRUE
            /\ fs' = AppendRow(fs, output_csv_path,
                               SuccessRow(original_agent_name,
                                          property_links[listingIdx],
                                          ParseFields(page), imageLinks))
            /\ outcomes' = Append(outcomes,
                                  Outcome("success", page, clicks,
                                          imageLinks))
            /\ NextListing

(***************************************************************************)
(* Batch driver: __main__ and main_scrape_process.                         *)
(***************************************************************************)

\* Lines 466-467 and 458: the next agent's collector is started once the
\* previous asyncio.run has returned; after the last agent the script ends.
DriverLoopCatches ==
    /\ pc \in {"driver", "e_returned", "raised"}
    /\ agentIdx' = agentIdx + 1
    /\ IF agentIdx + 1 > Len(site.agent_ids)
       THEN pc' = "exit" /\ UNCHANGED started
       ELSE /\ pc' = "collector"
            /\ started' = Append(started, <<agentIdx + 1, "collector">>)
    /\ UNCHANGED <<opened, site, fs, sanitized_agent_name,
                   original_agent_name>>
    /\ UNCHANGED collectorVars
    /\ UNCHANGED extractorVars

DriverLoop ==
    /\ pc \in {"driver", "e_returned"}
    /\ agentIdx' = agentIdx + 1
    /\ IF agentIdx + 1 > Len(site.agent_ids)
       THEN pc' = "exit" /\ UNCHANGED started
       ELSE /\ pc' = "collector"
            /\ started' = Append(started, <<agentIdx + 1, "collector">>)
    /\ UNCHANGED <<opened, site, fs, sanitized_agent_name,
                   original_agent_name>>
    /\ UNCHANGED collectorVars
    /\ UNCHANGED extractorVars

\* Lines 459-463: the file names are derived from the sanitized name and the
\* extractor is started.
MainAfterCollector ==
    /\ pc = "c_returned"
    /\ input_csv_path' = LinksPath(sanitized_agent_name)
    /\ output_csv_path' = PropertiesPath(sanitized_agent_name)
    /\ started' = Append(started, <<agentIdx, "extractor">>)
    /\ pc' = "extractor"
    /\ UNCHANGED <<opened, site, fs, agentIdx, sanitized_agent_name,
                   original_agent_name, property_links, skipped, browsers,
                   listingIdx, amenBound, page, slide, total_images, loopI,
                   clicks, imageLinks, outcomes>>
    /\ UNCHANGED collectorVars

(***************************************************************************)
(* What the website serves.                                                *)
(***************************************************************************)
ParamSrc(k) ==
    <<"http", "s://cdn/i", "?", "url=", "http", "s://img/">> \o Decimal(k)
        \o <<"&", "w=", "10">>

PlainSrc(k) ==
    <<"http", "s://img/">> \o Decimal(k) \o <<"?", "w=", "10", "&", "h=", "5">>

BlankParamSrc(k) ==
    <<"http", "s://img/">> \o Decimal(k) \o <<"?", "url=", "&", "w=", "10">>

DataSrc == <<"data:", "image/gif">>

Img(src) == Some(Some(src))

Item(title, content) == [title |-> Some(<<title>>), content |-> Some(<<content>>)]

FullColumns ==
    << [title |-> Some(<<" ", "Listing Details">>),
        items |-> << Item("Property ID", "id1"), Item("MLS#", "m1"),
                     Item("Price", "$1"), Item("Property type", "Villa"),
                     Item("Marketed By", "Firm"), Item("Status", "Active"),
                     Item("Year Built", "1990"), Item("Pool", "yes") >>],
       [title |-> Some(<<"Utilities & Building">>),
        items |-> << Item("Style", "Modern"), Item("total sqft", "900"),
                     Item("Lot Size Unit", "Acres"), Item("Lot Size", "2"),
                     Item("Parking", "Garage"), Item("cooling", "AC") >>],
       [title |-> Some(<<"Interior">>),
        items |-> << Item("Features", "Fireplace"),
                     Item("Full Bathrooms", "3"),
                     Item("partial baths", "1"), Item("Bedrooms", "4") >>],
       [title |-> Some(<<"Additional Features">>),
        items |-> << Item("Features", "Dock") >>] >>

\* Markup with pieces missing: a column without a title element, an item
\* without a content element, an item without a title element, and the
\* 'Full Bathrooms' pair twice under 'Interior'.
SparseColumns ==
    << [title |-> None, items |-> << Item("Property ID", "id9") >>],
       [title |-> Some(<<"Listing Details">>),
        items |-> << [title |-> Some(<<"Price">>), content |-> None],
                     [title |-> None, content |-> Some(<<"$9">>)],
                     Item("MLS#", "m2") >>],
       [title |-> Some(<<"Interior">>),
        items |-> << Item("Full Bathrooms", "2"),
                     Item("Full Bathrooms", "5") >>] >>

SlashPagination(current, total) ==
    Some([prefix |-> <<>>, current |-> current, separator |-> <<"/">>,
          total |-> total])

GoodPage(total) ==
    [carousel |-> TRUE, pagination |-> SlashPagination(1, total),
     next |-> TRUE, slides |-> [k \in 1..total |-> Img(ParamSrc(k))],
     static |-> <<>>, columns |-> FullColumns, amen |-> TRUE,
     descTitle |-> Some(<<"Title">>), desc |-> Some(<<"Body", "\n">>),
     lat |-> Some(<<"2","4",".","7">>), lon |-> Some(<<"-","7","7",".","3">>)]

NoAmenitiesPage == [GoodPage(2) EXCEPT !.amen = FALSE]
NoCarouselPage == [GoodPage(1) EXCEPT !.carousel = FALSE]
StaticPage(n) ==
    [GoodPage(0) EXCEPT !.pagination = None,
                        !.static = [k \in 1..n |-> Img(ParamSrc(k))]]
OfPagination ==
    [GoodPage(2) EXCEPT !.pagination =
        Some([prefix |-> <<>>, current |-> 1, separator |-> <<" of ">>,
              total |-> 2]),
                        !.static = << Img(ParamSrc(1)), Img(ParamSrc(2)) >>]
EmptyCarouselPage == [GoodPage(0) EXCEPT !.pagination = SlashPagination(0, 0)]
NoNextPage == [GoodPage(5) EXCEPT !.next = FALSE]
MidStartPage == [GoodPage(3) EXCEPT !.pagination = SlashPagination(2, 3)]
SparsePage ==
    [GoodPage(1) EXCEPT !.columns = SparseColumns, !.descTitle = None,
                        !.desc = None, !.lat = None, !.lon = None]
LateStartPage == [GoodPage(12) EXCEPT !.pagination = SlashPagination(11, 12)]
BareColumnsPage == [GoodPage(1) EXCEPT !.columns = <<>>]
SouthernPage == [GoodPage(1) EXCEPT !.lat = Some(<<"-","3","3">>)]
MixedSlidesPage ==
    [GoodPage(4) EXCEPT !.slides = << Img(PlainSrc(1)), None, Some(None),
                                      Img(DataSrc) >>]
BlankParamPage == [GoodPage(2) EXCEPT !.slides = << Img(BlankParamSrc(1)),
                                                    Img(PlainSrc(2)) >>]

ListingPages ==
    { GoodPage(3), GoodPage(BigCarousel), GoodPage(0), NoAmenitiesPage,
      NoCarouselPage, StaticPage(4), StaticPage(0), OfPagination, NoNextPage,
      MidStartPage, SparsePage, BareColumnsPage, SouthernPage,
      MixedSlidesPage, BlankParamPage, LateStartPage }

FewPages == { GoodPage(2), NoAmenitiesPage, NoCarouselPage }

PlainPages ==
    { GoodPage(1), [GoodPage(1) EXCEPT !.amen = FALSE], NoCarouselPage }

Stub(name, link) == [name |-> name, location |-> <<>>, link |-> link]

HttpA == <<"http", "s://site/a">>
HttpB == <<"http", "://site/b">>
Relative == <<"/eng/c">>

NoElement == [element |-> FALSE, attr |-> None]
NamedElement(name) == [element |-> TRUE, attr |-> Some(name)]

JaneOBrien ==
    <<"J","a","n","e"," "," ","O","'","B","r","i","e","n","!","!">>

NameAlphabet == {"a", "7", " ", "_", "!", "\t"}

DisplayNames ==
    UNION {[1..n -> NameAlphabet] : n \in 0..MaxNameLen} \cup {JaneOBrien}

Villa == <<"Villa">>
Wharf == <<"Wharf">>

\* Rows as csv.DictReader yields them: the cells a short row lacks are the
\* last ones of the header, and a row is never wholly empty.
CollectorRows ==
    {[name |-> Some(Villa), location |-> Some(<<>>), link |-> l] :
        l \in {None, Some(<<>>), Some(Relative), Some(HttpA), Some(HttpB)}}

LegacyRows ==
    {[c \in {"Property Link", "Property Name"} |->
         IF c = "Property Link" THEN l ELSE n] :
        l \in {Some(Relative), Some(HttpB)}, n \in {None, Some(Wharf)}}

TwoLinkRows ==
    {[c \in {"link", "Property Link"} |-> IF c = "link" THEN l ELSE p] :
        l \in {Some(Relative), Some(HttpA)},
        p \in {None, Some(Relative), Some(HttpB)}}

NameOnlyRows == {[c \in {"name"} |-> Some(Villa)]}

FilesOf(header, rows) ==
    {[header |-> header, rows |-> r] :
        r \in UNION {[1..n -> rows] : n \in 0..MaxRows}}

InputFiles ==
    FilesOf(LinksHeader, CollectorRows)
        \cup FilesOf(<<"Property Link", "Property Name">>, LegacyRows)
        \cup FilesOf(<<"link", "Property Link">>, TwoLinkRows)
        \cup FilesOf(<<"name">>, NameOnlyRows)

\* Files of accepted rows only: one link, or two.
AcceptedRow(name, link) ==
    [name |-> Some(name), location |-> Some(<<>>), link |-> Some(link)]

AcceptedFiles ==
    {[header |-> LinksHeader, rows |-> r] :
        r \in { <<AcceptedRow(Villa, HttpA)>>,
                <<AcceptedRow(Villa, HttpA), AcceptedRow(Wharf, HttpB)>> }}

StaleOutput ==
    [header |-> fieldnames, rows |-> << [c \in FieldnameSet |-> <<"old">>] >>]

(***************************************************************************)
(* Specifications.                                                         *)
(***************************************************************************)
InitLocals ==
    /\ agent_name = <<>>
    /\ previous_height = -1
    /\ sampled = <<>>
    /\ scrolls = 0
    /\ property_links = <<>>
    /\ skipped = 0
    /\ browsers = 0
    /\ listingIdx = 0
    /\ amenBound = FALSE
    /\ page = NoPage
    /\ slide = 0
    /\ total_images = 0
    /\ loopI = 0
    /\ clicks = 0
    /\ imageLinks = <<>>
    /\ outcomes = <<>>
    /\ opened = <<>>

\* The batch driver over up to MaxAgents agents.
Init ==
    /\ pc = "driver"
    /\ \E n \in 0..MaxAgents :
          site = [agent_ids |-> [i \in 1..n |-> i],
                  names |-> {NoElement, NamedElement(<<"a", " ">>),
                             NamedElement(<<"!">>)},
                  heights |-> {100},
                  stubs |-> {<<>>, <<Stub(Villa, Relative)>>,
                             <<Stub(Villa, HttpA)>>, <<Stub(Wharf, HttpB)>>},
                  pages |-> FewPages]
    /\ fs = <<>>
    /\ agentIdx = 0
    /\ started = <<>>
    /\ sanitized_agent_name = <<>>
    /\ original_agent_name = <<>>
    /\ input_csv_path = <<>>
    /\ output_csv_path = <<>>
    /\ InitLocals

Next ==
    \/ DriverLoop
    \/ CollectorOpen
    \/ ReadAgentName
    \/ ScrollStep
    \/ SaveLinks
    \/ MainAfterCollector
    \/ ExtractorStart
    \/ OpenListing
    \/ ClickNext
    \/ ParseAndWrite

Spec == Init /\ [][Next]_vars

\* One call of scrape_property_links, on a page with any display name or
\* with any sequence of document heights.
InitCollector ==
    /\ pc = "collector"
    /\ \/ site = [agent_ids |-> <<1>>,
                  names |-> {NamedElement(n) : n \in DisplayNames}
                              \cup {NoElement, [element |-> TRUE,
                                                attr |-> None]},
                  heights |-> {100},
                  stubs |-> {<<>>},
                  pages |-> {}]
       \/ site = [agent_ids |-> <<1>>,
                  names |-> {NoElement},
                  heights |-> {100, 300, 500},
                  stubs |-> {<<Stub(Villa, HttpA)>>},
                  pages |-> {}]
    /\ fs = <<>>
    /\ agentIdx = 1
    /\ started = << <<1, "collector">> >>
    /\ sanitized_agent_name = <<>>
    /\ original_agent_name = <<>>
    /\ input_csv_path = <<>>
    /\ output_csv_path = <<>>
    /\ InitLocals

NextCollector ==
    \/ CollectorOpen
    \/ ReadAgentName
    \/ ScrollStep
    \/ SaveLinks

SpecCollector == InitCollector /\ [][NextCollector]_vars

\* One call of scrape_details_from_links: on any input file, beside an
\* output file of an earlier run or none, with a few pages served; or on a
\* file of accepted rows with any page served.
InputPath == LinksPath(<<"a">>)
OutputPath == PropertiesPath(<<"a">>)
SiteOf(pages) ==
    [agent_ids |-> <<1>>, names |-> {}, heights |-> {}, stubs |-> {},
     pages |-> pages]

InitExtractor ==
    /\ pc = "extractor"
    /\ \/ /\ site = SiteOf(PlainPages)
          /\ \E stale \in BOOLEAN :
                LET old == IF stale THEN WriteFile(<<>>, OutputPath,
                                                   StaleOutput)
                           ELSE <<>>
                IN  \/ fs = old
                    \/ \E f \in InputFiles : fs = WriteFile(old, InputPath, f)
       \/ /\ site = SiteOf(ListingPages)
          /\ \E f \in AcceptedFiles : fs = WriteFile(<<>>, InputPath, f)
    /\ agentIdx = 1
    /\ started = << <<1, "collector">>, <<1, "extractor">> >>
    /\ sanitized_agent_name = <<"a">>
    /\ original_agent_name = <<"a", "!">>
    /\ input_csv_path = InputPath
    /\ output_csv_path = OutputPath
    /\ InitLocals

NextExtractor ==
    \/ ExtractorStart
    \/ OpenListing
    \/ ClickNext
    \/ ParseAndWrite

SpecExtractor == InitExtractor /\ [][NextExtractor]_vars

(***************************************************************************)
(* Properties.                                                             *)
(***************************************************************************)
InListingLoop == pc \in {"e_listing", "e_click", "e_fields"}
ReachedListingLoop == InListingLoop \/ (pc = "e_returned" /\ listingIdx > 0)
OutputRows == fs[output_csv_path].rows

\* A row is accepted when its cell under col begins with an HTTP scheme.
HasHttpLink(row, col) ==
    col \in DOMAIN row /\ row[col] # None /\ StartsWith(row[col][1], Http)
Accepted(row) == HasHttpLink(row, "link") \/ HasHttpLink(row, "Property Link")
AcceptedLink(row) ==
    IF HasHttpLink(row, "link") THEN row["link"][1]
    ELSE row["Property Link"][1]
AcceptedRows(file) == SelectSeq(file.rows, Accepted)
IsErrorRow(row) == row[<<"Property ID">>] = ErrorScraping

\* C1: once the per-listing loop is reached, the output file holds exactly
\* one row per accepted input row whose iteration is over, in input order,
\* carrying that row's link and name, and each is a success row or an error
\* row; at the return that is one row for every accepted input row.
C1_OneRowPerAcceptedLink ==
    ReachedListingLoop =>
        LET accepted == AcceptedRows(fs[input_csv_path])
            done == IF pc = "e_returned" THEN Len(accepted)
                                         ELSE listingIdx - 1
        IN  /\ Len(OutputRows) = done
            /\ Len(outcomes) = done
            /\ \A i \in 1..done :
                  /\ OutputRows[i][<<"Property Link">>] =
                        AcceptedLink(accepted[i])
                  /\ OutputRows[i][<<"Property Name">>] =
                        CsvCell(NameOf(accepted[i]))
                  /\ outcomes[i].result \in {"success", "error"}
                  /\ IsErrorRow(OutputRows[i]) <=>
                        outcomes[i].result = "error"

C1_Witness ==
    /\ pc = "e_returned"
    /\ Len(outcomes) = 2
    /\ outcomes[1].result = "success"
    /\ outcomes[2].result = "error"
    /\ Len(OutputRows) = 2

IdentityColumns ==
    { <<"Agent Name">>, <<"Category">>, <<"Property Name">>,
      <<"Property Link">> }

\* C2: a listing that ends in the exception handler gets one error row,
\* appended after the rows already written, with the stub's name and link
\* and every data field '' or 'Error Scraping'; the loop then goes on to the
\* next link when there is one, and the exception never leaves the coroutine.
C2_ErrorRowThenContinue ==
    [][ ( /\ InListingLoop
          /\ Len(outcomes') = Len(outcomes) + 1
          /\ outcomes'[Len(outcomes')].result = "error" )
        => LET stub == property_links[listingIdx]
               before == fs[output_csv_path].rows
               after == fs'[output_csv_path].rows
               row == after[Len(after)]
           IN  /\ after = Append(before, row)
               /\ row[<<"Property Name">>] = CsvCell(stub.name)
               /\ row[<<"Property Link">>] = stub.link
               /\ row[<<"Property ID">>] = ErrorScraping
               /\ \A c \in FieldnameSet \ IdentityColumns :
                     row[c] \in {<<>>, ErrorScraping}
               /\ property_links' = property_links
               /\ listingIdx' = listingIdx + 1
               /\ pc' = IF listingIdx < Len(property_links)
                        THEN "e_listing" ELSE "e_returned" ]_vars

C2_Witness ==
    /\ Len(outcomes) = 2
    /\ outcomes[1].result = "error"
    /\ outcomes[1].at = "e_click"
    /\ outcomes[2].result = "success"

\* C3: after the input file was read, every row was looked at: the rows
\* without a link beginning with an HTTP scheme were each skipped with one
\* message, the others are the links to visit, and at the return the output
\* file holds rows for the accepted rows only.
C3_InvalidRowsSkipped ==
    (pc # "extractor" /\ Exists(input_csv_path)) =>
        LET rows == fs[input_csv_path].rows
            accepted == AcceptedRows(fs[input_csv_path])
        IN  /\ Len(property_links) + skipped = Len(rows)
            /\ skipped = Len(rows) - Len(accepted)
            /\ property_links =
                  [i \in 1..Len(accepted) |->
                      [name |-> NameOf(accepted[i]),
                       link |-> AcceptedLink(accepted[i])]]
            /\ (pc = "e_returned" /\ accepted # <<>>) =>
                  Len(OutputRows) = Len(accepted)

\* What the carousel fallback is described to collect: the normalized source
\* of every rendered image node.
AwaitedFallback(pg) ==
    LET F[i \in 0..Len(pg.static)] ==
            IF i = 0 THEN <<>> ELSE Capture(F[i - 1], pg.static[i])
    IN  F[Len(pg.static)]

NoIndicator(pg) ==
    \/ pg.pagination = None
    \/ PaginationMatch(PaginationText(pg.pagination[1],
                                      pg.pagination[1].current)) = None

\* C4: a listing whose page shows no current/total pagination text gets a
\* success row, without any click, holding the normalized source of every
\* rendered image node.
C4_FallbackCollectsRenderedImages ==
    \A i \in 1..Len(outcomes) :
        (outcomes[i].page.carousel /\ outcomes[i].page.amen
            /\ NoIndicator(outcomes[i].page))
        => /\ outcomes[i].result = "success"
           /\ outcomes[i].clicks = 0
           /\ outcomes[i].links = AwaitedFallback(outcomes[i].page)

OriginUrl(k) == <<"http", "s://img/">> \o Decimal(k)

\* C5: in a success row of a listing with n captured URLs every one of the
\* 60 image columns is present; 'Image Link i' is the i-th captured URL for
\* i <= n and '' for i > n; of the 61 or more URLs of the largest carousel
\* the first 60, those of slides 1..60, are kept.
C5_ImageColumns ==
    \A i \in 1..Len(outcomes) :
        outcomes[i].result = "success" =>
            LET row == OutputRows[i]
                links == outcomes[i].links
            IN  /\ ImageColumnSet \subseteq DOMAIN row
                /\ \A j \in 1..max_image_columns :
                      row[ImageColumn(j)] =
                          IF j <= Len(links) THEN links[j] ELSE <<>>
                /\ outcomes[i].page = GoodPage(BigCarousel) =>
                      /\ Len(links) = BigCarousel
                      /\ \A j \in 1..max_image_columns :
                            row[ImageColumn(j)] = OriginUrl(j)

C5_Witness ==
    \E i \in 1..Len(outcomes) :
        /\ outcomes[i].result = "success"
        /\ Len(outcomes[i].links) > max_image_columns
        /\ OutputRows[i][ImageColumn(max_image_columns)] =
              OriginUrl(max_image_columns)

\* C6 (as amended): the auto-scroll loop performs one scroll per sampled
\* height and stops at the first sample equal to the one before it; on the
\* heights 100, 300, 500, 500 it stops having performed 4 scrolls.
C6_ScrollStopsOnRepeat ==
    /\ pc \in {"c_scroll", "c_cards"} =>
          /\ scrolls = Len(sampled)
          /\ \A k \in 2..(Len(sampled) - 1) : sampled[k] # sampled[k - 1]
    /\ pc = "c_scroll" =>
          \A k \in 2..Len(sampled) : sampled[k] # sampled[k - 1]
    /\ pc = "c_cards" =>
          /\ Len(sampled) >= 2
          /\ sampled[Len(sampled)] = sampled[Len(sampled) - 1]
          /\ sampled = <<100, 300, 500, 500>> => scrolls = 4

C6_Witness == pc = "c_cards" /\ sampled = <<100, 300, 500, 500>>

\* C6 as stated: on the heights 100, 300, 500, 500 the loop has performed
\* exactly 3 scroll actions when it stops.
C6_ThreeScrolls ==
    (pc = "c_cards" /\ sampled = <<100, 300, 500, 500>>) => scrolls = 3

AlnumOf(name) == SelectSeq(name, isalnum)
JaneTwoUnderscores == <<"J","a","n","e","_","_","O","B","r","i","e","n">>
JaneOneUnderscore == <<"J","a","n","e","_","O","B","r","i","e","n">>

\* C8 (as amended): the sanitized identifier returned by the collector is
\* never empty, holds only letters, digits and underscores, keeps the
\* letters and digits of the display name in order, has an underscore for
\* every kept space, and is the default token exactly when nothing is kept;
\* "Jane  O'Brien!!" (two spaces) gives "Jane__OBrien".
C8_Sanitized ==
    pc = "c_returned" =>
        LET name == original_agent_name
            kept == rstrip(SelectSeq(name, LAMBDA c :
                                        isalnum(c) \/ c \in {" ", "_"}))
            id == sanitized_agent_name
        IN  /\ id # <<>>
            /\ \A i \in 1..Len(id) : isalnum(id[i]) \/ id[i] = "_"
            /\ kept = <<>> => id = PropertyToken
            /\ kept # <<>> =>
                  /\ Len(id) = Len(kept)
                  /\ AlnumOf(id) = AlnumOf(name)
                  /\ \A i \in 1..Len(id) :
                        id[i] = IF kept[i] = " " THEN "_" ELSE kept[i]
            /\ name = JaneOBrien => id = JaneTwoUnderscores

C8_Witness ==
    /\ pc = "c_returned"
    /\ original_agent_name = JaneOBrien
    /\ sanitized_agent_name = JaneTwoUnderscores

\* C8 as stated: "Jane  O'Brien!!" sanitizes to "Jane_OBrien".
C8_JaneOneUnderscore ==
    (pc = "c_returned" /\ original_agent_name = JaneOBrien) =>
        sanitized_agent_name = JaneOneUnderscore

\* C7: when the input file does not exist or holds no accepted row, the
\* extractor returns to its caller, launches no browser and leaves every
\* file as it was.
C7_AbortLeavesNoTrace ==
    [][ ( /\ pc = "extractor"
          /\ \/ ~Exists(input_csv_path)
             \/ AcceptedRows(fs[input_csv_path]) = <<>> )
        => /\ pc' = "e_returned"
           /\ browsers' = browsers
           /\ fs' = fs ]_vars

\* The stages in the order the driver runs them: collector then extractor
\* of agent 1, then of agent 2, and so on.
StageAt(j) == <<(j + 1) \div 2, IF j % 2 = 1 THEN "collector" ELSE "extractor">>

\* C9: the stages are started one agent after the other, the extractor of an
\* agent after its collector; once an exception has left an agent's
\* pipeline nothing is started any more; an extractor that returns, also
\* for a missing file or no accepted link, is followed by the next agent's
\* collector when there is a next agent.
C9_SequentialNoIsolation ==
    /\ [](/\ \A j \in 1..Len(started) : started[j] = StageAt(j)
          /\ pc = "raised" => Len(started) \in {2 * agentIdx - 1, 2 * agentIdx})
    /\ [][ /\ pc # "raised"
           /\ (pc = "extractor" /\ Exists(input_csv_path)
                 /\ AcceptedRows(fs[input_csv_path]) = <<>>)
              => pc' = "e_returned"
           /\ (pc = "e_returned" /\ agentIdx < Len(site.agent_ids))
              => /\ started' = Append(started, <<agentIdx + 1, "collector">>)
                 /\ pc' = "collector" ]_vars

C9_Witness ==
    /\ pc = "raised"
    /\ agentIdx = 1
    /\ Len(site.agent_ids) = 2
    /\ started = << <<1, "collector">>, <<1, "extractor">> >>

\* C10: a listing whose carousel step succeeded gets a success row whatever
\* is missing from the markup, the missing fields at '' or 'N/A'.
C10_MissingFieldNeverAborts ==
    \A i \in 1..Len(outcomes) :
        outcomes[i].at = "e_fields" =>
            /\ outcomes[i].result = "success"
            /\ outcomes[i].page.desc = None =>
                  OutputRows[i][<<"Property Description">>] = NA
            /\ outcomes[i].page.lat = None =>
                  OutputRows[i][<<"Latitude">>] = <<>>
            /\ outcomes[i].page.columns = <<>> =>
                  OutputRows[i][<<"Price">>] = <<>>

\* The 'Full Bathrooms' title/content pairs that stand under an 'Interior'
\* column, in document order.
IsFullBathroomsPair(item) ==
    /\ item.title # None
    /\ item.content # None
    /\ strip(item.title[1]) = <<"Full Bathrooms">>

RECURSIVE FullBathroomsPairs(_, _)
FullBathroomsPairs(columns, i) ==
    IF i > Len(columns) THEN <<>>
    ELSE (IF columns[i].title # None
             /\ strip(columns[i].title[1]) = <<"Interior">>
          THEN SelectSeq(columns[i].items, IsFullBathroomsPair)
          ELSE <<>>) \o FullBathroomsPairs(columns, i + 1)

\* C11: in the success row of a listing whose page has more than one
\* 'Full Bathrooms' pair under 'Interior', the 'Full Bathrooms' cell is the
\* content of the first pair in document order.
C11_FirstFullBathroomsWins ==
    \A i \in 1..Len(outcomes) :
        LET pairs == FullBathroomsPairs(outcomes[i].page.columns, 1)
        IN  (outcomes[i].result = "success" /\ Len(pairs) > 1) =>
               OutputRows[i][<<"Full Bathrooms">>] =
                  strip(pairs[1].content[1])

\* The pagination text a page shows when it is opened, parsed as line 173
\* parses it.
OpeningMatch(pg) ==
    PaginationMatch(PaginationText(pg.pagination[1],
                                   pg.pagination[1].current))
HasIndicator(pg) == pg.pagination # None /\ OpeningMatch(pg) # None

\* The URLs captured from the slides idxs[j..], appended to acc in that
\* order, none of them dropped as a duplicate.
RECURSIVE CaptureSlides(_, _, _, _)
CaptureSlides(pg, idxs, j, acc) ==
    IF j > Len(idxs) THEN acc
    ELSE CaptureSlides(pg, idxs, j + 1,
                       Capture(acc, SlideImage(pg, idxs[j])))

\* The slides a carousel of N slides goes through: the one it opens on,
\* then, when there is a next control, the slides 2..N.
SlideOrder(pg) ==
    LET N == OpeningMatch(pg)[1].total
    IN  <<OpeningMatch(pg)[1].current>> \o
        (IF pg.next /\ N > 1 THEN [k \in 1..(N - 1) |-> k + 1] ELSE <<>>)

BoundBefore(i) ==
    \E j \in 1..(i - 1) :
        outcomes[j].at = "e_fields" /\ outcomes[j].page.amen

\* C13: within one run of the extractor, a listing that reaches the
\* amenities step on a page without the heading gets an error row exactly
\* when no earlier listing of the run reached that step with the heading
\* there, and a success row otherwise; the local is bound from the first
\* such listing on.
C13_AmenitiesBindingCarriesOver ==
    /\ amenBound <=> BoundBefore(Len(outcomes) + 1)
    /\ \A i \in 1..Len(outcomes) :
          (outcomes[i].at = "e_fields" /\ ~outcomes[i].page.amen) =>
             /\ outcomes[i].result = "error" <=> ~BoundBefore(i)
             /\ IsErrorRow(OutputRows[i]) <=> ~BoundBefore(i)

C13_Witness ==
    /\ Len(outcomes) = 2
    /\ outcomes[1].at = "e_fields" /\ outcomes[1].page.amen
    /\ outcomes[2].at = "e_fields" /\ ~outcomes[2].page.amen
    /\ outcomes[2].result = "success"
    /\ ~IsErrorRow(OutputRows[2])

\* The last open(path, 'w') of the batch so far.
LastOpen(path) ==
    opened[CHOOSE k \in 1..Len(opened) :
              /\ opened[k].path = path
              /\ \A m \in (k + 1)..Len(opened) : opened[m].path # path]
IsLinksPath(path) == path[Len(path)] = "_links.csv"

\* C14: a file is keyed by the sanitized name alone and every open
\* truncates it, so at any time a links file holds the stubs of the last
\* agent whose collector wrote it and nothing else, and a properties file
\* holds one row per accepted link of the last agent whose extractor opened
\* it (all of them once the batch is over) and nothing else; an extractor
\* that accepts no link leaves every file as it was, an earlier agent's
\* properties file included.
C14_SameNameOverwrites ==
    /\ [](\A path \in DOMAIN fs :
             LET last == LastOpen(path)
                 rows == fs[path].rows
             IN  IF IsLinksPath(path)
                 THEN fs[path] = LinksFile(last.stubs)
                 ELSE /\ fs[path].header = fieldnames
                      /\ Len(rows) <= Len(last.stubs)
                      /\ pc = "exit" => Len(rows) = Len(last.stubs)
                      /\ \A i \in 1..Len(rows) :
                            /\ rows[i][<<"Property Link">>] =
                                  last.stubs[i].link
                            /\ rows[i][<<"Property Name">>] =
                                  CsvCell(last.stubs[i].name))
    /\ [][ (pc = "extractor" /\ property_links' = <<>>) => fs' = fs ]_vars

\* Two agents with the same sanitized name, one accepted link each: both
\* files hold the second agent's rows only.
C14_Witness ==
    /\ pc = "exit"
    /\ Len(opened) = 4
    /\ opened[1].path = opened[3].path
    /\ opened[2].path = opened[4].path
    /\ opened[1].agent = 1 /\ opened[3].agent = 2
    /\ opened[1].stubs = <<Stub(Villa, HttpA)>>
    /\ opened[3].stubs = <<Stub(Wharf, HttpB)>>
    /\ fs[opened[3].path] = LinksFile(<<Stub(Wharf, HttpB)>>)
    /\ Len(fs[opened[4].path].rows) = 1
    /\ fs[opened[4].path].rows[1][<<"Property Link">>] = HttpB

====
